---------------------------- MODULE Spec2Model ----------------------------
(***************************************************************************)
(* ChatEasezy backend: the contact directory kept in the JSON config       *)
(* document (backend/main.py), the grammar fixer with its AI providers and *)
(* its AI-free cleanup (backend/grammar_fixer.py), and the send pipeline.  *)
(*                                                                         *)
(* A Python str is a sequence of one-character strings; a Python dict is   *)
(* a sequence of <<key, value>> pairs in insertion order.                   *)
(* A float confidence c is the integer 100 * c.                            *)
(***************************************************************************)
EXTENDS Integers, Sequences, FiniteSets, TLC

VARIABLES
    config_file,      \* the JSON document at CONFIG_PATH, or NoFile
    last,             \* the last directory request served and its outcome
    tasks,            \* event loop: the request coroutines in flight
    running,          \* event loop: the coroutine holding the loop, or 0
    served,           \* event loop: number of requests accepted so far
    groq_api_key,     \* GrammarFixer.groq_api_key is set
    gemini_api_key,   \* GrammarFixer.gemini_api_key is set
    active_provider,  \* GrammarFixer._active_provider
    fix,              \* the last fix_and_parse invocation and its outcome
    telegram,         \* the delivery service: "none", "disconnected", "connected"
    send,             \* the last /message request and its outcome
    service,          \* the fields of the TelegramService object
    call              \* the last call on the TelegramService and its outcome

vars == <<config_file, last, tasks, running, served, groq_api_key,
          gemini_api_key, active_provider, fix, telegram, send,
          service, call>>

\* None where a str is expected (no str has a two-character element),
\* None where a dict is expected, and the absent config file
None == <<"None">>
NoneRec == [is_none |-> TRUE]
NoFile == [absent |-> TRUE]

(***************************************************************************)
(* Python str                                                              *)
(***************************************************************************)
LowerAlpha == <<"a", "b", "c", "d", "e", "f", "g", "h", "i", "j", "k", "l", "m", "n", "o", "p", "q", "r", "s", "t", "u", "v", "w", "x", "y", "z">>
UpperAlpha == <<"A", "B", "C", "D", "E", "F", "G", "H", "I", "J", "K", "L", "M", "N", "O", "P", "Q", "R", "S", "T", "U", "V", "W", "X", "Y", "Z">>
Digits == <<"0", "1", "2", "3", "4", "5", "6", "7", "8", "9">>

Range(s) == {s[i] : i \in 1..Len(s)}

IsUpper(c) == c \in Range(UpperAlpha)
IsLower(c) == c \in Range(LowerAlpha)

IndexIn(alpha, c) == CHOOSE i \in 1..Len(alpha) : alpha[i] = c

lower_char(c) == IF IsUpper(c) THEN LowerAlpha[IndexIn(UpperAlpha, c)] ELSE c
upper_char(c) == IF IsLower(c) THEN UpperAlpha[IndexIn(LowerAlpha, c)] ELSE c

\* str.lower()
lower(s) == [i \in 1..Len(s) |-> lower_char(s[i])]

\* \s and str.strip() whitespace
Whitespace == {" ", "\t", "\n"}
IsSpace(c) == c \in Whitespace

\* \w
WordChars == Range(LowerAlpha) \cup Range(UpperAlpha) \cup Range(Digits) \cup {"_"}
IsWord(c) == c \in WordChars

\* s[i:] with 1-based i
From(s, i) == IF i > Len(s) THEN <<>> ELSE SubSeq(s, i, Len(s))

\* length of the longest run of characters of the class cls that starts at
\* s[i]
RunLen(s, i, cls) ==
    LET runs == {n \in 0..(IF i > Len(s) THEN 0 ELSE Len(s) - i + 1) :
                   \A j \in i..(i + n - 1) : s[j] \in cls}
    IN  CHOOSE n \in runs : \A m \in runs : m <= n

\* str.strip()
strip(s) ==
    LET a == RunLen(s, 1, Whitespace)
        RECURSIVE Back(_)
        Back(j) == IF j >= 1 /\ IsSpace(s[j]) THEN Back(j - 1) ELSE j
        b == Back(Len(s))
    IN  IF a >= Len(s) THEN <<>> ELSE SubSeq(s, a + 1, b)

\* w occurs in s at position i
IsAt(s, i, w) ==
    /\ i >= 1
    /\ i + Len(w) - 1 <= Len(s)
    /\ \A j \in 1..Len(w) : s[i + j - 1] = w[j]

\* w occurs in s at position i, ignoring case (re.IGNORECASE on ASCII)
IsAtCI(s, i, w) ==
    /\ i >= 1
    /\ i + Len(w) - 1 <= Len(s)
    /\ \A j \in 1..Len(w) : lower_char(s[i + j - 1]) = lower_char(w[j])

\* w in s
Contains(s, w) == \E i \in 1..(Len(s) + 1) : IsAt(s, i, w)

\* s.startswith(w)
startswith(s, w) == IsAt(s, 1, w)

\* s.replace(old, new) for a one-character old
replace_char(s, old, new) == [i \in 1..Len(s) |-> IF s[i] = old THEN new ELSE s[i]]

(***************************************************************************)
(* Python dict, insertion-ordered                                          *)
(***************************************************************************)
DictKeys(d) == [i \in 1..Len(d) |-> d[i][1]]
DictHas(d, k) == \E i \in 1..Len(d) : d[i][1] = k
DictGet(d, k) == d[CHOOSE i \in 1..Len(d) : d[i][1] = k][2]
\* d[k] = v : an existing key keeps its position
DictSet(d, k, v) ==
    IF DictHas(d, k)
    THEN [i \in 1..Len(d) |-> IF d[i][1] = k THEN <<k, v>> ELSE d[i]]
    ELSE Append(d, <<k, v>>)
\* {k: x for k, x in d.items() if x == v}
DictWithValue(d, v) == SelectSeq(d, LAMBDA kv : kv[2] = v)
\* {k: x for k, x in d.items() if x != v}
DictWithoutValue(d, v) == SelectSeq(d, LAMBDA kv : kv[2] # v)
\* del d[k]
DictDel(d, k) == SelectSeq(d, LAMBDA kv : kv[1] # k)

(***************************************************************************)
(* Persistence: load_config / save_config                                  *)
(***************************************************************************)
DefaultConfig == [contacts |-> <<>>, aliases |-> <<>>]

\* json.load of the file, or the default document when the file is absent
load_config(file) == IF file = NoFile THEN DefaultConfig ELSE file

\* json.dump replaces the whole document
save_config(cfg) == cfg

(***************************************************************************)
(* Contact directory                                                       *)
(***************************************************************************)
\* contact_id = contact.name.lower().replace(" ", "_")
ContactId(name) == replace_char(lower(name), " ", "_")

RECURSIVE AddAliases(_, _, _)
AddAliases(aliases, given, contact_id) ==
    IF given = <<>> THEN aliases
    ELSE AddAliases(DictSet(aliases, lower(Head(given)), contact_id),
                    Tail(given), contact_id)

\* the document create_contact saves
CreateDoc(cfg, contact) ==
    LET contact_id == ContactId(contact.name)
        rec == [name |-> contact.name, telegram |-> contact.telegram,
                role |-> contact.role, notes |-> contact.notes]
        a1 == DictSet(cfg.aliases, lower(contact.name), contact_id)
        a2 == DictSet(a1, contact_id, contact_id)
    IN  [contacts |-> DictSet(cfg.contacts, contact_id, rec),
         aliases  |-> AddAliases(a2, contact.aliases, contact_id)]

\* the ContactResponse create_contact returns
CreateResponse(contact) ==
    [id |-> ContactId(contact.name), name |-> contact.name,
     telegram |-> contact.telegram, role |-> contact.role,
     aliases |-> <<lower(contact.name)>> \o contact.aliases,
     notes |-> contact.notes]

\* delete_contact without the alias cascade
DeleteDocKeepAliases(cfg, contact_id) ==
    [contacts |-> DictDel(cfg.contacts, contact_id), aliases |-> cfg.aliases]

\* delete_contact dropping the aliases by key instead of by target
DeleteDocByKey(cfg, contact_id) ==
    [contacts |-> DictDel(cfg.contacts, contact_id),
     aliases  |-> DictDel(cfg.aliases, contact_id)]

\* the document delete_contact saves
DeleteDoc(cfg, contact_id) ==
    [contacts |-> DictDel(cfg.contacts, contact_id),
     aliases  |-> DictWithoutValue(cfg.aliases, contact_id)]

\* resolve_recipient: the key of the contact returned, Direct for a handle
\* literal, None when nothing is found
Direct == <<"Direct">>
ResolveKey(hint, cfg) ==
    LET hint_lower == strip(lower(hint))
        byName == {i \in 1..Len(cfg.contacts) :
                     lower(cfg.contacts[i][2].name) = hint_lower}
    IN  IF hint = None \/ hint = <<>> THEN None
        ELSE IF startswith(hint, <<"@">>) THEN Direct
        ELSE IF /\ DictHas(cfg.aliases, hint_lower)
                /\ DictHas(cfg.contacts, DictGet(cfg.aliases, hint_lower))
             THEN DictGet(cfg.aliases, hint_lower)
        ELSE IF byName # {}
             THEN cfg.contacts[CHOOSE i \in byName : \A j \in byName : i <= j][1]
        ELSE None

resolve_recipient(hint, cfg) ==
    LET k == ResolveKey(hint, cfg)
    IN  IF k = None THEN NoneRec
        ELSE IF k = Direct THEN [name |-> hint, telegram |-> hint]
        ELSE DictGet(cfg.contacts, k)


\* list_contacts: one ContactResponse per contact, with the aliases that
\* point at it
ListResponse(cfg) ==
    [i \in 1..Len(cfg.contacts) |->
        LET contact_id == cfg.contacts[i][1]
            data == cfg.contacts[i][2]
        IN  [id |-> contact_id, name |-> data.name, telegram |-> data.telegram,
             role |-> data.role,
             aliases |-> DictKeys(DictWithValue(cfg.aliases, contact_id)),
             notes |-> data.notes]]

(***************************************************************************)
(* Grammar fixer: the AI-free cleanup                                      *)
(***************************************************************************)
\* re.sub(re.escape(old), new, text, flags=re.IGNORECASE): every
\* non-overlapping match, left to right
RECURSIVE sub_ignorecase(_, _, _)
sub_ignorecase(old, new, text) ==
    LET at == {i \in 1..Len(text) : IsAtCI(text, i, old)}
        i == CHOOSE m \in at : \A j \in at : m <= j
    IN  IF old = <<>> \/ at = {} THEN text
        ELSE SubSeq(text, 1, i - 1) \o new
               \o sub_ignorecase(old, new, From(text, i + Len(old)))

\* _basic_cleanup: replacements, in dict order
replacements ==
    <<
       <<<<" ", "i", "m", " ">>, <<" ", "I", "'", "m", " ">>>>,
       <<<<" ", "i", " ">>, <<" ", "I", " ">>>>,
       <<<<" ", "d", "o", "n", "t", " ">>, <<" ", "d", "o", "n", "'", "t", " ">>>>,
       <<<<" ", "c", "a", "n", "t", " ">>, <<" ", "c", "a", "n", "'", "t", " ">>>>,
       <<<<" ", "w", "o", "n", "t", " ">>, <<" ", "w", "o", "n", "'", "t", " ">>>>,
       <<<<" ", "d", "i", "d", "n", "t", " ">>, <<" ", "d", "i", "d", "n", "'", "t", " ">>>>,
       <<<<" ", "d", "o", "e", "s", "n", "t", " ">>, <<" ", "d", "o", "e", "s", "n", "'", "t", " ">>>>,
       <<<<" ", "i", "s", "n", "t", " ">>, <<" ", "i", "s", "n", "'", "t", " ">>>>,
       <<<<" ", "a", "r", "e", "n", "t", " ">>, <<" ", "a", "r", "e", "n", "'", "t", " ">>>>,
       <<<<" ", "w", "a", "s", "n", "t", " ">>, <<" ", "w", "a", "s", "n", "'", "t", " ">>>>,
       <<<<" ", "w", "e", "r", "e", "n", "t", " ">>, <<" ", "w", "e", "r", "e", "n", "'", "t", " ">>>>,
       <<<<" ", "y", "o", "u", "r", "e", " ">>, <<" ", "y", "o", "u", "'", "r", "e", " ">>>>,
       <<<<" ", "t", "h", "e", "y", "r", "e", " ">>, <<" ", "t", "h", "e", "y", "'", "r", "e", " ">>>>,
       <<<<" ", "h", "e", "s", " ">>, <<" ", "h", "e", "'", "s", " ">>>>,
       <<<<" ", "s", "h", "e", "s", " ">>, <<" ", "s", "h", "e", "'", "s", " ">>>>,
       <<<<" ", "i", "t", "s", " ">>, <<" ", "i", "t", "'", "s", " ">>>>,
       <<<<" ", "w", "e", "v", "e", " ">>, <<" ", "w", "e", "'", "v", "e", " ">>>>,
       <<<<" ", "i", "v", "e", " ">>, <<" ", "I", "'", "v", "e", " ">>>>,
       <<<<" ", "t", "e", "h", " ">>, <<" ", "t", "h", "e", " ">>>>,
       <<<<" ", "t", "a", "h", "t", " ">>, <<" ", "t", "h", "a", "t", " ">>>>,
       <<<<" ", "w", "i", "h", "t", " ">>, <<" ", "w", "i", "t", "h", " ">>>>,
       <<<<" ", "t", "o", "m", "m", "o", "r", "o", "w", " ">>, <<" ", "t", "o", "m", "o", "r", "r", "o", "w", " ">>>>,
       <<<<" ", "t", "o", "m", "m", "o", "r", "r", "o", "w", " ">>, <<" ", "t", "o", "m", "o", "r", "r", "o", "w", " ">>>>
    >>

\* the replacement loop of _basic_cleanup from entry k on: the test reads
\* the text_lower computed before the loop, the substitution the current text
RECURSIVE ApplyReplacements(_, _, _)
ApplyReplacements(text, text_lower, k) ==
    IF k > Len(replacements) THEN text
    ELSE LET old == replacements[k][1]
             new == replacements[k][2]
         IN  ApplyReplacements(
                 IF Contains(text_lower, old)
                 THEN sub_ignorecase(strip(old), strip(new), text)
                 ELSE text,
                 text_lower, k + 1)

TerminalPunctuation == {".", "!", "?"}

\* text.strip(), then the first letter capitalized
Capitalized(text) ==
    LET t == strip(text)
    IN  IF t # <<>> THEN <<upper_char(t[1])>> \o From(t, 2) ELSE t

\* the punctuation step left out
PunctuationSkipped(text) == Capitalized(text)

\* ... then a period added if there is no ending punctuation
Punctuated(text) ==
    LET t == Capitalized(text)
    IN  IF t # <<>> /\ t[Len(t)] \notin TerminalPunctuation
        THEN t \o <<".">> ELSE t

_basic_cleanup(text) ==
    LET t == Punctuated(text)
        text_lower == <<" ">> \o lower(t) \o <<" ">>
    IN  ApplyReplacements(t, text_lower, 1)

(***************************************************************************)
(* Grammar fixer: the pattern-based recipient extraction                   *)
(***************************************************************************)
\* the least element of a non-empty set of positions
Least(P) == CHOOSE i \in P : \A j \in P : i <= j

\* s[i : i + n]
Slice(s, i, n) == IF n = 0 THEN <<>> ELSE SubSeq(s, i, i + n - 1)

\* re.search(r'@(\w+)', text): the positions of an "@" followed by a word
\* character
UsernameAt(text) ==
    {i \in 1..Len(text) : text[i] = "@" /\ RunLen(text, i + 1, WordChars) >= 1}

Verbs == <<<<"s", "e", "n", "d">>, <<"m", "e", "s", "s", "a", "g", "e">>, <<"t", "e", "l", "l">>, <<"t", "e", "x", "t">>>>
RoleWords == <<<<"b", "o", "s", "s">>, <<"m", "a", "n", "a", "g", "e", "r">>, <<"l", "e", "a", "d">>>>

\* (?:send|message|tell|text)\s+(?:to\s+)?(\w+) tried at position i of s:
\* the <<start, length>> of group 1, or <<0, 0>> when there is no match at i
VerbMatchAt(s, i) ==
    LET vs == {k \in 1..Len(Verbs) : IsAt(s, i, Verbs[k])}
    IN  IF vs = {} THEN <<0, 0>>
        ELSE
        LET p == i + Len(Verbs[Least(vs)])
            q == p + RunLen(s, p, Whitespace)
            r == q + 2 + RunLen(s, q + 2, Whitespace)
        IN  IF q = p THEN <<0, 0>>
            ELSE IF /\ IsAt(s, q, <<"t", "o">>)
                    /\ r > q + 2
                    /\ RunLen(s, r, WordChars) >= 1
                 THEN <<r, RunLen(s, r, WordChars)>>
            ELSE IF RunLen(s, q, WordChars) >= 1
                 THEN <<q, RunLen(s, q, WordChars)>>
            ELSE <<0, 0>>

\* (?:my\s+)?(boss|manager|lead): the positions at which a role word occurs
\* (the leftmost match captures the leftmost role word)
RoleAt(s) ==
    {i \in 1..Len(s) : \E k \in 1..Len(RoleWords) : IsAt(s, i, RoleWords[k])}

RoleWordAt(s, i) ==
    RoleWords[Least({k \in 1..Len(RoleWords) : IsAt(s, i, RoleWords[k])})]

_extract_recipient_basic(text, known_contacts) ==
    LET text_lower == lower(text)
        users == UsernameAt(text)
        known == {k \in 1..Len(known_contacts) :
                    Contains(text_lower, lower(known_contacts[k]))}
        verbs == {i \in 1..Len(text_lower) : VerbMatchAt(text_lower, i)[1] # 0}
        roles == RoleAt(text_lower)
    IN  IF users # {}
        THEN <<"@">> \o Slice(text, Least(users) + 1,
                             RunLen(text, Least(users) + 1, WordChars))
        ELSE IF known # {} THEN known_contacts[Least(known)]
        ELSE IF verbs # {}
             THEN LET g == VerbMatchAt(text_lower, Least(verbs))
                  IN  Slice(text_lower, g[1], g[2])
        ELSE IF roles # {} THEN RoleWordAt(text_lower, Least(roles))
        ELSE None

(***************************************************************************)
(* Grammar fixer: providers and fix_and_parse                              *)
(***************************************************************************)
\* Python values of a result dict: a str, None, a number (times 100), and
\* the absence of the key
PyStr(s) == [str |-> s]
PyNone == [none |-> TRUE]
PyNum(n) == [num |-> n]
Missing == [missing |-> TRUE]
\* Optional[str] as a Python value
PyOpt(s) == IF s = None THEN PyNone ELSE PyStr(s)

Groq == <<"g", "r", "o", "q">>
Gemini == <<"g", "e", "m", "i", "n", "i">>

\* GrammarFixer.__init__: the provider, determined from the credentials
InitProvider(groq_key, gemini_key) ==
    IF groq_key THEN Groq ELSE IF gemini_key THEN Gemini ELSE None

\* confidence of the AI-free result, and the default for a JSON object that
\* has no "confidence" (times 100)
FallbackConfidence == 50
DefaultConfidence == 80

\* What one call of _call_groq / _call_gemini can come to: the call raises
\* (transport error, timeout, raise_for_status, a response envelope without
\* the expected keys), or it returns the model's text, in which
\* re.search(r'\{[^{}]*\}') finds nothing ("prose"), finds a brace group that
\* json.loads rejects ("undecodable"), or finds one that json.loads turns
\* into a dict ("object", with the value of each key of interest).
Raises ==
    {[kind |-> "raises", error |-> e] :
        e \in {<<"C", "o", "n", "n", "e", "c", "t", "E", "r", "r", "o", "r">>, <<"R", "e", "a", "d", "T", "i", "m", "e", "o", "u", "t">>, <<"H", "T", "T", "P", "S", "t", "a", "t", "u", "s", "E", "r", "r", "o", "r", " ", "4", "2", "9">>,
               <<"K", "e", "y", "E", "r", "r", "o", "r", " ", "'", "c", "h", "o", "i", "c", "e", "s", "'">>}}

GoodData ==
    [corrected_message |-> PyStr(<<"H", "e", "y", ",", " ", "c", "a", "n", " ", "y", "o", "u", " ", "s", "e", "n", "d", " ", "m", "e", " ", "t", "h", "e", " ", "f", "i", "l", "e", "s", "?">>),
     recipient |-> PyStr(<<"r", "a", "h", "u", "l">>),
     confidence |-> PyNum(95)]

Objects ==
    {[kind |-> "object", data |-> d] :
        d \in {GoodData,
               [GoodData EXCEPT !.corrected_message = Missing],
               [GoodData EXCEPT !.corrected_message = PyNone],
               [GoodData EXCEPT !.recipient = Missing],
               [GoodData EXCEPT !.recipient = PyNone],
               [GoodData EXCEPT !.recipient = PyStr(<<"n", "o", "b", "o", "d", "y">>)],
               [GoodData EXCEPT !.confidence = Missing],
               [GoodData EXCEPT !.confidence = PyNone],
               [GoodData EXCEPT !.confidence = PyNum(9500)],
               [corrected_message |-> Missing, recipient |-> Missing,
                confidence |-> Missing]}}

Unparsed == {[kind |-> "prose"], [kind |-> "undecodable"]}

NoCall == [kind |-> "no call"]
Outcomes == Raises \cup Unparsed \cup Objects

\* dict.get(key, default) on the decoded JSON object
JsonGet(value, default) == IF value = Missing THEN default ELSE value

\* the AI-free result of fix_and_parse and of _parse_ai_response
BasicResult(text, known_contacts, error) ==
    [corrected_text |-> PyStr(_basic_cleanup(text)),
     detected_recipient |-> PyOpt(_extract_recipient_basic(text, known_contacts)),
     confidence |-> PyNum(FallbackConfidence),
     error |-> error]

_parse_ai_response(response, original_text, known_contacts) ==
    IF response.kind = "object"
    THEN [corrected_text |->
              JsonGet(response.data.corrected_message,
                      PyStr(_basic_cleanup(original_text))),
          detected_recipient |-> JsonGet(response.data.recipient, PyNone),
          confidence |-> JsonGet(response.data.confidence,
                                 PyNum(DefaultConfidence)),
          error |-> Missing]
    ELSE BasicResult(original_text, known_contacts, Missing)

\* the provider calls one fix_and_parse makes, in order, with a second
\* provider tried after a failed first call
ProviderCallsWithFallback(provider, outcome) ==
    IF provider = None THEN <<>>
    ELSE IF outcome.kind = "raises" THEN <<provider, Gemini>>
    ELSE <<provider>>

\* the provider calls one fix_and_parse makes, in order
ProviderCalls(provider, outcome) ==
    IF provider = None THEN <<>> ELSE <<provider>>

\* the dict fix_and_parse returns
FixResult(provider, text, known_contacts, outcome) ==
    IF provider = None THEN BasicResult(text, known_contacts, Missing)
    ELSE IF outcome.kind = "raises"
         THEN BasicResult(text, known_contacts, PyStr(outcome.error))
    ELSE _parse_ai_response(outcome, text, known_contacts)

(***************************************************************************)
(* Message assembler: extract_message_content                              *)
(***************************************************************************)
Connectors == <<<<"t", "h", "a", "t">>, <<"s", "a", "y", "i", "n", "g">>, <<":">>>>
Greetings == <<<<"h", "e", "y">>, <<"h", "i">>, <<"h", "e", "l", "l", "o">>>>

\* the position after the alternative of alts (tried in order, ignoring
\* case) that matches s at position i, or 0
AfterAlternative(s, i, alts) ==
    LET ks == {k \in 1..Len(alts) : IsAtCI(s, i, alts[k])}
    IN  IF ks = {} THEN 0 ELSE i + Len(alts[Least(ks)])

\* \s*(that|saying|:)?\s* from position e: the position after the match
AfterConnector(s, e) ==
    LET e1 == e + RunLen(s, e, Whitespace)
        e2 == IF AfterAlternative(s, e1, Connectors) = 0 THEN e1
              ELSE AfterAlternative(s, e1, Connectors)
    IN  e2 + RunLen(s, e2, Whitespace)

\* ^(send|message|tell|text)\s+(to\s+)?NAME\s*(that|saying|:)?\s* : the
\* position after the match, or 0.  The backtracking order is: the longest
\* \s+ first; with "to" before without; the longest \s+ after "to" first.
AfterNamePrefix(s, name) ==
    LET p == AfterAlternative(s, 1, Verbs)
        W == RunLen(s, p, Whitespace)
        \* <<rank, end>> of every way to match up to and including NAME
        toWays == {kj \in (1..W) \X (1..Len(s)) :
                     /\ IsAtCI(s, p + kj[1], <<"t", "o">>)
                     /\ kj[2] <= RunLen(s, p + kj[1] + 2, Whitespace)
                     /\ IsAtCI(s, p + kj[1] + 2 + kj[2], name)}
        viaTo == {<<(W - kj[1]) * (2 * Len(s) + 2)
                      + (RunLen(s, p + kj[1] + 2, Whitespace) - kj[2]),
                    p + kj[1] + 2 + kj[2] + Len(name)>> : kj \in toWays}
        direct == {<<(W - k) * (2 * Len(s) + 2) + Len(s) + 1,
                     p + k + Len(name)>> :
                     k \in {k \in 1..W : IsAtCI(s, p + k, name)}}
        ways == viaTo \cup direct
    IN  IF p = 0 \/ ways = {} THEN 0
        ELSE AfterConnector(s, (CHOOSE c \in ways : \A x \in ways : c[1] <= x[1])[2])

\* ^(send|message|tell|text)\s+(to\s+)?@\w+\s*(that|saying|:)?\s*
AfterHandlePrefix(s) ==
    LET p == AfterAlternative(s, 1, Verbs)
        q == p + RunLen(s, p, Whitespace)
        r == q + 2 + RunLen(s, q + 2, Whitespace)
        at == IF IsAtCI(s, q, <<"t", "o">>) /\ r > q + 2 THEN r ELSE q
        w == RunLen(s, at + 1, WordChars)
    IN  IF p = 0 \/ q = p \/ ~IsAt(s, at, <<"@">>) \/ w = 0 THEN 0
        ELSE AfterConnector(s, at + 1 + w)

\* ^(hey|hi|hello)\s+\w+\s*,?\s*
AfterGreeting(s) ==
    LET p == AfterAlternative(s, 1, Greetings)
        q == p + RunLen(s, p, Whitespace)
        e == q + RunLen(s, q, WordChars)
        e1 == e + RunLen(s, e, Whitespace)
        e2 == IF IsAt(s, e1, <<",">>) THEN e1 + 1 ELSE e1
    IN  IF p = 0 \/ q = p \/ e = q THEN 0
        ELSE e2 + RunLen(s, e2, Whitespace)

\* re.sub(pattern, "", s, count=1) for a pattern anchored at the start
Cut(s, after) == IF after = 0 THEN s ELSE From(s, after)

CutNamePrefix(s, recipient_name) == Cut(s, AfterNamePrefix(s, recipient_name))
CutHandlePrefix(s) == Cut(s, AfterHandlePrefix(s))
CutGreeting(s) == Cut(s, AfterGreeting(s))

\* the three patterns in turn, each applied to the result of the one before
extract_message_content(text, recipient_name) ==
    strip(CutGreeting(CutHandlePrefix(CutNamePrefix(text, recipient_name))))

(***************************************************************************)
(* Requests drawn for the directory                                        *)
(***************************************************************************)
Names == {<<"B", "o", "b">>, <<"b", "o", "b">>, <<"A", "l", " ", "B">>}
Handles == {<<"@", "h">>}
AliasLists == {<<>>, <<<<"b", "o", "b">>>>, <<<<"B", "o", "s", "s">>, <<"@", "a", "l">>>>}
DefaultRole == <<"c", "o", "l", "l", "e", "a", "g", "u", "e">>
ContactCreates ==
    [name : Names, telegram : Handles, role : {DefaultRole},
     aliases : AliasLists, notes : {<<>>}]
DeleteIds == {<<"b", "o", "b">>, <<"a", "l", "_", "b">>, <<"b", "o", "s", "s">>}

(***************************************************************************)
(* Idle values of the parts a specification does not exercise              *)
(***************************************************************************)
NoRequest == [op |-> "none"]
DirIdle == last = NoRequest
LoopIdle == tasks = <<>> /\ running = 0 /\ served = 0
FixIdle ==
    /\ groq_api_key = FALSE /\ gemini_api_key = FALSE
    /\ active_provider = None /\ fix = NoRequest
SendIdle == telegram = "none" /\ send = NoRequest
\* TelegramService.__init__
NewService ==
    [client |-> FALSE, _is_connected |-> FALSE, phone |-> None,
     phone_code_hash |-> None]
ServiceIdle == service = NewService /\ call = NoRequest

dirVars == <<config_file, last>>
loopVars == <<tasks, running, served>>
fixVars == <<groq_api_key, gemini_api_key, active_provider, fix>>
sendVars == <<telegram, send>>
svcVars == <<service, call>>

(***************************************************************************)
(* The directory endpoints, one request at a time                          *)
(***************************************************************************)
\* POST /contacts
create_contact(contact) ==
    LET config == load_config(config_file)
    IN  /\ config_file' = save_config(CreateDoc(config, contact))
        /\ last' = [op |-> "create", arg |-> contact, pre |-> config,
                    status |-> "200", response |-> CreateResponse(contact)]
        /\ UNCHANGED <<loopVars, fixVars, sendVars, svcVars>>

\* DELETE /contacts/{contact_id}
delete_contact(contact_id) ==
    LET config == load_config(config_file)
    IN  /\ IF ~DictHas(config.contacts, contact_id)
           THEN /\ UNCHANGED config_file
                /\ last' = [op |-> "delete", arg |-> contact_id, pre |-> config,
                            status |-> "404", response |-> <<"C", "o", "n", "t", "a", "c", "t", " ", "n", "o", "t", " ", "f", "o", "u", "n", "d">>]
           ELSE /\ config_file' = save_config(DeleteDoc(config, contact_id))
                /\ last' = [op |-> "delete", arg |-> contact_id, pre |-> config,
                            status |-> "200", response |-> <<"s", "u", "c", "c", "e", "s", "s">>]
        /\ UNCHANGED <<loopVars, fixVars, sendVars, svcVars>>

\* GET /contacts
list_contacts ==
    LET config == load_config(config_file)
    IN  /\ last' = [op |-> "list", arg |-> <<>>, pre |-> config,
                    status |-> "200", response |-> ListResponse(config)]
        /\ UNCHANGED <<config_file, loopVars, fixVars, sendVars, svcVars>>

Init ==
    /\ config_file = NoFile
    /\ DirIdle /\ LoopIdle /\ FixIdle /\ SendIdle /\ ServiceIdle

Next ==
    \/ \E contact \in ContactCreates : create_contact(contact)
    \/ \E contact_id \in DeleteIds : delete_contact(contact_id)
    \/ list_contacts

Spec == Init /\ [][Next]_vars

\* the directory document a request would read now
Directory == load_config(config_file)
ContactIds(cfg) == Range(DictKeys(cfg.contacts))
AliasKeys(cfg) == Range(DictKeys(cfg.aliases))
\* the aliases of cfg that refer to contact_id
AliasesOf(cfg, contact_id) ==
    {a \in AliasKeys(cfg) : DictGet(cfg.aliases, a) = contact_id}


(***************************************************************************)
(* Claims about the directory (specification Spec)                         *)
(***************************************************************************)
NoDanglingAlias(cfg) ==
    \A a \in AliasKeys(cfg) : DictGet(cfg.aliases, a) \in ContactIds(cfg)

DeleteSucceeded == last.op = "delete" /\ last.status = "200"

\* C1: starting from an empty directory, after any sequence of create and
\* delete requests every contact_id that is a value of the alias index is
\* the id of a contact of the contact set.
C1_NoDanglingAlias == NoDanglingAlias(Directory)

\* a contact with several aliases was deleted while another contact, with
\* its aliases, remains
C1_Witness ==
    /\ DeleteSucceeded
    /\ Cardinality(AliasesOf(last.pre, last.arg)) >= 3
    /\ Directory.aliases # <<>>

NamedBy(cfg, a) ==
    {cfg.contacts[i][1] : i \in {j \in 1..Len(cfg.contacts) :
                                   lower(cfg.contacts[j][2].name) = strip(a)}}

C3_DuplicateRejected ==
    (/\ last.op = "create"
     /\ DictHas(last.pre.contacts, ContactId(last.arg.name)))
        => (last.status # "200" /\ Directory = last.pre)


(***************************************************************************)
(* The endpoints as coroutines of the one event loop (uvicorn.run, one     *)
(* process).  A coroutine holds the loop from the moment it is resumed     *)
(* until it awaits or returns.                                             *)
(***************************************************************************)
NumTasks == 2
MaxRequests == 4
Tasks == 1..NumTasks

\* a handler that awaits between its load_config and its save_config
AwaitsBeforeSaveYields == TRUE
\* create_contact, delete_contact and list_contacts contain no await: the
\* handler does not give up the loop between load_config and save_config
AwaitsBeforeSave == FALSE

LoopRequests ==
    {[op |-> "create", arg |-> c] :
        c \in {c \in ContactCreates :
                 \/ c.name = <<"B", "o", "b">> /\ c.aliases = <<>>
                 \/ c.name = <<"A", "l", " ", "B">> /\ c.aliases = <<<<"b", "o", "b">>>>}}
    \cup {[op |-> "delete", arg |-> id] : id \in {<<"b", "o", "b">>, <<"a", "l", "_", "b">>}}
    \cup {[op |-> "list", arg |-> <<>>]}

IdleTask == [pc |-> "idle", req |-> NoRequest, config |-> NoFile]

\* a request arrives and its coroutine is queued
Accept(t, req) ==
    /\ tasks[t].pc = "idle"
    /\ served < MaxRequests
    /\ tasks' = [tasks EXCEPT ![t] = [pc |-> "start", req |-> req,
                                      config |-> NoFile]]
    /\ served' = served + 1
    /\ UNCHANGED <<config_file, last, running, fixVars, sendVars, svcVars>>

\* the loop resumes the coroutine, which runs up to its load_config
Load(t) ==
    /\ tasks[t].pc = "start"
    /\ running = 0
    /\ tasks' = [tasks EXCEPT ![t].pc = "loaded",
                              ![t].config = load_config(config_file)]
    /\ running' = IF AwaitsBeforeSave THEN 0 ELSE t
    /\ UNCHANGED <<config_file, last, served, fixVars, sendVars, svcVars>>

\* the coroutine runs from its load_config to its return
Finish(t) ==
    LET req == tasks[t].req
        config == tasks[t].config
        missing == req.op = "delete" /\ ~DictHas(config.contacts, req.arg)
    IN  /\ tasks[t].pc = "loaded"
        /\ running = t \/ (AwaitsBeforeSave /\ running = 0)
        /\ config_file' =
             IF req.op = "create" THEN save_config(CreateDoc(config, req.arg))
             ELSE IF req.op = "delete" /\ ~missing
                  THEN save_config(DeleteDoc(config, req.arg))
             ELSE config_file
        /\ last' = [op |-> req.op, arg |-> req.arg,
                    pre |-> load_config(config_file),
                    status |-> IF missing THEN "404" ELSE "200",
                    response |->
                        IF req.op = "create" THEN CreateResponse(req.arg)
                        ELSE IF req.op = "list" THEN ListResponse(config)
                        ELSE IF missing THEN <<"C", "o", "n", "t", "a", "c", "t", " ", "n", "o", "t", " ", "f", "o", "u", "n", "d">>
                        ELSE <<"s", "u", "c", "c", "e", "s", "s">>]
        /\ tasks' = [tasks EXCEPT ![t] = IdleTask]
        /\ running' = 0
        /\ UNCHANGED <<served, fixVars, sendVars, svcVars>>

InitLoop ==
    /\ config_file = NoFile
    /\ last = NoRequest
    /\ tasks = [t \in Tasks |-> IdleTask]
    /\ running = 0
    /\ served = 0
    /\ FixIdle /\ SendIdle /\ ServiceIdle

NextLoop ==
    \/ \E t \in Tasks, req \in LoopRequests : Accept(t, req)
    \/ \E t \in Tasks : Load(t)
    \/ \E t \in Tasks : Finish(t)

SpecLoop == InitLoop /\ [][NextLoop]_vars

\* C7: directory requests issued concurrently are serialized.  A request
\* that has loaded the document holds the loop until it returns and the
\* document on disk is still the one it loaded (no other directory request
\* ran in between); every save writes the result of its request applied to
\* the document that was on disk just before it (a serial order, no lost
\* update); and no request ever reads a document in which an alias refers
\* to a missing contact.
C7_Serialized ==
    /\ \A t \in Tasks :
          tasks[t].pc = "loaded" =>
              /\ running = t
              /\ tasks[t].config = Directory
              /\ NoDanglingAlias(tasks[t].config)
    /\ (last.op = "create" => Directory = CreateDoc(last.pre, last.arg))
    /\ (last.op = "delete" /\ last.status = "200"
            => Directory = DeleteDoc(last.pre, last.arg))
    /\ (last.op = "delete" /\ last.status = "404"
            => ~DictHas(last.pre.contacts, last.arg))
    /\ NoDanglingAlias(Directory)

\* a delete has loaded a document with two contacts while a create waits
\* for the loop
C7_Witness ==
    \E t, u \in Tasks :
        /\ tasks[t].pc = "loaded" /\ tasks[t].req.op = "delete"
        /\ Len(tasks[t].config.contacts) = 2
        /\ DictHas(tasks[t].config.contacts, tasks[t].req.arg)
        /\ tasks[u].pc = "start" /\ tasks[u].req.op = "create"


(***************************************************************************)
(* The grammar fixer on its own (specification SpecFix)                    *)
(***************************************************************************)
MaxLen == 3
TextAlphabet == {" ", "i", "M", "?"}

RECURSIVE StringsUpTo(_)
StringsUpTo(n) ==
    IF n = 0 THEN {<<>>}
    ELSE LET shorter == StringsUpTo(n - 1)
         IN  shorter \cup {Append(t, c) : t \in shorter, c \in TextAlphabet}

EndToEndText ==
    <<"s", "e", "n", "d", " ", "m", "e", "s", "s", "a", "g", "e", " ", "t", "o", " ", "r", "a", "h", "u", "l", " ", "s", "a", "y", "i", "n", "g", " ", "h", "e", "y", " ", "c", "a", "n", " ", "y", "o", "u", " ", "s", "e", "n", "d", " ", "m", "e", " ", "t", "e", "h", " ", "f", "i", "l", "e", "s", " ", "t", "o", "m", "m", "o", "r", "o", "w">>

SampleTexts ==
    {EndToEndText,
     <<"t", "e", "l", "l", " ", "m", "y", " ", "b", "o", "s", "s", " ", "t", "h", "a", "t", " ", "t", "h", "e", " ", "m", "e", "e", "t", "i", "n", "g", " ", "w", "e", "n", "t", " ", "g", "o", "o", "d", " ", "a", "n", "d", " ", "w", "e", " ", "c", "l", "o", "s", "e", "d", " ", "t", "h", "e", " ", "d", "e", "a", "l">>,
     <<"m", "e", "s", "s", "a", "g", "e", " ", "@", "p", "r", "i", "y", "a", "_", "d", "e", "s", "i", "g", "n", "s", " ", "t", "h", "e", " ", "m", "o", "c", "k", "u", "p", "s", " ", "l", "o", "o", "k", " ", "g", "r", "e", "a", "t", " ", "l", "e", "t", "s", " ", "f", "i", "n", "a", "l", "i", "z", "e", " ", "t", "h", "e", "m">>,
     <<"t", "o", "m", "m", "o", "r", "o", "w", " ", "s", "e", "n", "d", " ", "r", "a", "h", "u", "l", " ", "t", "e", "h", " ", "f", "i", "l", "e", "s", " ", "o", "k">>,
     <<" ", "i", " ", "d", "o", "n", "t", " ", "k", "n", "o", "w", "!">>}

Texts == StringsUpTo(MaxLen) \cup SampleTexts

SelfTestContacts == <<<<"r", "a", "h", "u", "l">>, <<"p", "r", "i", "y", "a">>, <<"b", "o", "s", "s">>>>
KnownContacts == {<<>>, SelfTestContacts}

\* one call of fix_and_parse, made when the previous result has been taken
FixAndParse(text, known_contacts, outcome) ==
    /\ fix = NoRequest
    /\ (active_provider = None) = (outcome = NoCall)
    /\ fix' = [op |-> "fix", text |-> text, known_contacts |-> known_contacts,
               outcome |-> outcome,
               calls |-> ProviderCalls(active_provider, outcome),
               result |-> FixResult(active_provider, text, known_contacts,
                                    outcome)]
    /\ UNCHANGED <<groq_api_key, gemini_api_key, active_provider,
                   dirVars, loopVars, sendVars, svcVars>>

InitFix ==
    /\ groq_api_key \in BOOLEAN
    /\ gemini_api_key \in BOOLEAN
    /\ active_provider = InitProvider(groq_api_key, gemini_api_key)
    /\ fix = NoRequest
    /\ config_file = NoFile
    /\ DirIdle /\ LoopIdle /\ SendIdle /\ ServiceIdle

\* the caller takes the result
FixReturn ==
    /\ fix # NoRequest
    /\ fix' = NoRequest
    /\ UNCHANGED <<groq_api_key, gemini_api_key, active_provider,
                   dirVars, loopVars, sendVars, svcVars>>

NextFix ==
    \/ \E text \in Texts, known_contacts \in KnownContacts,
          outcome \in Outcomes \cup {NoCall} :
           FixAndParse(text, known_contacts, outcome)
    \/ FixReturn

SpecFix == InitFix /\ [][NextFix]_vars

IsStr(v) == DOMAIN v = {"str"}
IsNone(v) == v = PyNone
IsNum(v) == DOMAIN v = {"num"}

\* the provider call failed: it raised, or nothing decodable came back
CallFailed == fix.op = "fix" /\ fix.outcome.kind \in {"raises", "prose", "undecodable"}

\* C5 as stated: whatever the provider does, correct() returns a well-formed
\* CorrectionResult: corrected_text a string, detected_recipient a string or
\* null, confidence a number in [0,1].
C5_WellFormedResult ==
    fix.op = "fix" =>
        /\ IsStr(fix.result.corrected_text)
        /\ IsStr(fix.result.detected_recipient) \/ IsNone(fix.result.detected_recipient)
        /\ IsNum(fix.result.confidence)
        /\ fix.result.confidence.num \in 0..100

\* C6 as stated: with a provider configured, a failed call (transport, HTTP
\* status, no JSON object extracted or decoded) returns exactly the AI-absent
\* fallback and carries the error message in a populated error field.
C6_FailureCarriesError ==
    CallFailed =>
        /\ fix.result.corrected_text = PyStr(_basic_cleanup(fix.text))
        /\ fix.result.detected_recipient =
               PyOpt(_extract_recipient_basic(fix.text, fix.known_contacts))
        /\ fix.result.confidence = PyNum(FallbackConfidence)
        /\ IsStr(fix.result.error)
        /\ fix.result.error.str # <<>>

\* C8: the provider is the one chosen at construction (Groq if its
\* credential is present, otherwise Gemini, otherwise none) and never
\* changes; one correct() makes at most one provider call, to that provider,
\* and none when no provider is configured; a failed Groq call is neither
\* retried nor followed by a Gemini call.
C8_OneCallToChosenProvider ==
    /\ active_provider = (IF groq_api_key THEN Groq
                          ELSE IF gemini_api_key THEN Gemini ELSE None)
    /\ fix.op = "fix" =>
          /\ Len(fix.calls) <= 1
          /\ \A i \in 1..Len(fix.calls) : fix.calls[i] = active_provider
          /\ (active_provider = None => fix.calls = <<>>)
          /\ (active_provider # None => fix.calls = <<active_provider>>)

\* a Groq call has failed although a Gemini credential is present too
C8_Witness ==
    /\ fix.op = "fix"
    /\ groq_api_key /\ gemini_api_key
    /\ fix.outcome.kind = "raises"
    /\ fix.calls = <<Groq>>

EndsInPunctuation(t) == t # <<>> /\ t[Len(t)] \in TerminalPunctuation

\* the AI-free path ran: corrected_text is _basic_cleanup(text)
Normalized == fix.op = "fix" /\ active_provider = None

\* C9 as stated: for every non-empty input, strings of whitespace only
\* included, the output of normalize ends in one of . ! ?
C9_NonEmptyEndsInPunctuation ==
    (Normalized /\ fix.text # <<>>)
        => EndsInPunctuation(fix.result.corrected_text.str)

\* C9 amended: for every input with at least one non-whitespace character
\* the output of normalize ends in one of . ! ? ; for an input of whitespace
\* only (as for the empty input) the output is the empty string.
C9_NonBlankEndsInPunctuation ==
    Normalized =>
        IF strip(fix.text) # <<>>
        THEN EndsInPunctuation(fix.result.corrected_text.str)
        ELSE fix.result.corrected_text.str = <<>>

\* an input with surrounding whitespace in which a replacement was applied
C9_Witness ==
    /\ Normalized
    /\ strip(fix.text) # <<>>
    /\ strip(fix.text) # fix.text
    /\ fix.result.corrected_text.str # Punctuated(fix.text)
    /\ EndsInPunctuation(fix.result.corrected_text.str)

\* w is a whole (space-delimited) word of text
WholeWord(text, w) == Contains(<<" ">> \o lower(text) \o <<" ">>, <<" ">> \o w \o <<" ">>)

\* C10 as stated: with no provider, a dictated text that has the
\* misspellings "teh" and "tommorow" as whole words at any position, the
\* last included, and names the known contact "rahul", comes back with "the"
\* and "tomorrow", without "teh" and "tommorow", and with hint "rahul".
C10_MisspellingsCorrected ==
    (/\ Normalized
     /\ WholeWord(fix.text, <<"t", "e", "h">>)
     /\ WholeWord(fix.text, <<"t", "o", "m", "m", "o", "r", "o", "w">>)
     /\ WholeWord(fix.text, <<"r", "a", "h", "u", "l">>)
     /\ fix.known_contacts = SelfTestContacts)
        => /\ Contains(fix.result.corrected_text.str, <<"t", "h", "e">>)
           /\ Contains(fix.result.corrected_text.str, <<"t", "o", "m", "o", "r", "r", "o", "w">>)
           /\ ~Contains(fix.result.corrected_text.str, <<"t", "e", "h">>)
           /\ ~Contains(fix.result.corrected_text.str, <<"t", "o", "m", "m", "o", "r", "o", "w">>)
           /\ fix.result.detected_recipient = PyStr(<<"r", "a", "h", "u", "l">>)


(***************************************************************************)
(* The message endpoints (specification SpecSend)                          *)
(***************************************************************************)
\* str(x) in an f-string
FormatPy(v) == IF v = PyNone THEN <<"N", "o", "n", "e">> ELSE v.str

\* "if not recipient_hint": None and "" are falsy
Falsy(v) == v = PyNone \/ v = PyStr(<<>>)

\* the argument resolve_recipient receives
HintArg(v) == IF v = PyNone THEN None ELSE v.str

\* what the delivery service does with a message handed to it
Deliveries ==
    {[kind |-> "sent", message_id |-> 1],
     [kind |-> "raises", error |-> <<"C", "a", "n", "n", "o", "t", " ", "f", "i", "n", "d", " ", "a", "n", "y", " ", "e", "n", "t", "i", "t", "y">>]}

\* the grammar step with the detected recipient taking precedence over the
\* recipient of the request
GrammarStepDetectedFirst(request, result) ==
    IF request.fix_grammar
    THEN [corrected_text |-> result.corrected_text,
          recipient_hint |-> IF Falsy(result.detected_recipient)
                             THEN PyOpt(request.recipient)
                             ELSE result.detected_recipient]
    ELSE [corrected_text |-> PyStr(request.raw_text),
          recipient_hint |-> PyOpt(request.recipient)]

\* corrected_text and recipient_hint after the grammar step of send_message
\* and preview_message, given what fix_and_parse returned
GrammarStep(request, result) ==
    IF request.fix_grammar
    THEN [corrected_text |-> result.corrected_text,
          recipient_hint |-> IF Falsy(PyOpt(request.recipient))
                             THEN result.detected_recipient
                             ELSE PyOpt(request.recipient)]
    ELSE [corrected_text |-> PyStr(request.raw_text),
          recipient_hint |-> PyOpt(request.recipient)]

Candidate(request, config, provider, outcome) ==
    GrammarStep(request, FixResult(provider, request.raw_text,
                                   DictKeys(config.contacts), outcome))

\* SendMessageResponse(...): pydantic rejects a value that is not a str for
\* a field declared str, and the request then ends in a server error
SendMessageResponse(success, original_text, corrected_text, recipient, recipient_name, message_id, error) ==
    IF ~IsStr(corrected_text)
    THEN [status |-> "500"]
    ELSE [status |-> "200", success |-> success,
          original_text |-> original_text,
          corrected_text |-> corrected_text.str,
          recipient |-> recipient, recipient_name |-> recipient_name,
          message_id |-> message_id, error |-> error]

\* send_message: the hand-over to the delivery service and the response
Deliver(request, cand, recipient_info, message_text, delivery) ==
    [op |-> "send", request |-> request,
     response |->
         SendMessageResponse(delivery.kind = "sent", request.raw_text,
             PyStr(message_text), recipient_info.telegram,
             recipient_info.name,
             IF delivery.kind = "sent" THEN PyNum(delivery.message_id)
             ELSE PyNone,
             IF delivery.kind = "sent" THEN PyNone
             ELSE PyStr(delivery.error)),
     sent |-> <<[recipient |-> recipient_info.telegram,
                 message |-> message_text]>>,
     recipient_hint |-> cand.recipient_hint,
     recipient_info |-> recipient_info]

\* send_message from "if not recipient_info" on
AfterResolve(request, cand, recipient_info, delivery) ==
    IF recipient_info = NoneRec
    THEN [op |-> "send", request |-> request,
          response |->
              SendMessageResponse(FALSE, request.raw_text,
                  cand.corrected_text, <<>>, <<>>, PyNone,
                  PyStr(<<"C", "o", "u", "l", "d", " ", "n", "o", "t", " ", "f", "i", "n", "d", " ", "r", "e", "c", "i", "p", "i", "e", "n", "t", ":", " ">>
                        \o FormatPy(cand.recipient_hint))),
          sent |-> <<>>,
          recipient_hint |-> cand.recipient_hint,
          recipient_info |-> recipient_info]
    ELSE IF ~IsStr(cand.corrected_text)
    \* re.sub on None: TypeError, outside the try
    THEN [op |-> "send", request |-> request,
          response |-> [status |-> "500"], sent |-> <<>>,
          recipient_hint |-> cand.recipient_hint,
          recipient_info |-> recipient_info]
    ELSE Deliver(request, cand, recipient_info,
                 extract_message_content(cand.corrected_text.str,
                                         recipient_info.name),
                 delivery)

\* send_message from "Resolve recipient" on
AfterGrammar(request, config, cand, delivery) ==
    AfterResolve(request, cand,
                 resolve_recipient(HintArg(cand.recipient_hint), config),
                 delivery)

\* send_message from load_config on: the response, the message handed to
\* the delivery service (if any), the hint and what it resolved to
SendOutcome(request, config, provider, outcome, delivery) ==
    AfterGrammar(request, config,
                 Candidate(request, config, provider, outcome), delivery)

\* preview_message from "recipient_info = resolve_recipient(...)" on
PreviewAfterResolve(request, cand, recipient_info) ==
    [op |-> "preview", request |-> request,
     response |->
         IF ~IsStr(cand.corrected_text) THEN [status |-> "500"]
         ELSE [status |-> "200", original |-> request.raw_text,
               corrected |-> extract_message_content(
                                 cand.corrected_text.str,
                                 IF recipient_info = NoneRec THEN <<>>
                                 ELSE recipient_info.name),
               recipient |-> recipient_info,
               ready_to_send |-> recipient_info # NoneRec],
     sent |-> <<>>,
     recipient_hint |-> cand.recipient_hint,
     recipient_info |-> recipient_info]

PreviewAfterGrammar(request, config, cand) ==
    PreviewAfterResolve(request, cand,
        resolve_recipient(HintArg(cand.recipient_hint), config))

PreviewOutcome(request, config, provider, outcome) ==
    PreviewAfterGrammar(request, config,
                        Candidate(request, config, provider, outcome))

NotReached == [not_reached |-> TRUE]

\* the provider outcomes drawn for the message endpoints
SendOutcomes ==
    {o \in Outcomes :
        \/ o.kind = "prose"
        \/ o.kind = "raises" /\ o.error = <<"R", "e", "a", "d", "T", "i", "m", "e", "o", "u", "t">>
        \/ o.kind = "object" /\ o.data.confidence = PyNum(95)}

SendTexts ==
    {<<"t", "e", "l", "l", " ", "r", "a", "h", "u", "l", ":", " ", "h", "e", "y", " ", "b", "o", "b", ",", " ", "t", "e", "h", " ", "p", "l", "a", "n">>, <<"m", "e", "s", "s", "a", "g", "e", " ", "@", "x", " ", "h", "i">>, <<"s", "e", "e", " ", "y", "o", "u">>}
SendRecipients == {None, <<>>, <<"R", "a", "h", "u", "l">>, <<"@", "x">>, <<"n", "o", "b", "o", "d", "y">>}
Requests ==
    [raw_text : SendTexts, recipient : SendRecipients, fix_grammar : BOOLEAN]

RahulContact ==
    [name |-> <<"R", "a", "h", "u", "l">>, telegram |-> <<"@", "r", "a", "h", "u", "l", "_", "k">>, role |-> DefaultRole,
     aliases |-> <<<<"B", "o", "s", "s">>>>, notes |-> <<>>]

\* the documents the endpoints find: none yet, or the one left by
\* create_contact
SendConfigs == {NoFile, save_config(CreateDoc(DefaultConfig, RahulContact))}

\* POST /message/send
send_message(request, outcome, delivery) ==
    /\ send = NoRequest
    /\ (active_provider = None \/ ~request.fix_grammar) = (outcome = NoCall)
    /\ send' =
         IF telegram # "connected"
         THEN [op |-> "send", request |-> request,
               response |-> [status |-> "503"], sent |-> <<>>,
               recipient_hint |-> NotReached, recipient_info |-> NotReached]
         ELSE SendOutcome(request, load_config(config_file), active_provider,
                          outcome, delivery)
    /\ UNCHANGED <<telegram, dirVars, loopVars, fixVars, svcVars>>

\* POST /message/preview
preview_message(request, outcome) ==
    /\ send = NoRequest
    /\ (active_provider = None \/ ~request.fix_grammar) = (outcome = NoCall)
    /\ send' = PreviewOutcome(request, load_config(config_file),
                              active_provider, outcome)
    /\ UNCHANGED <<telegram, dirVars, loopVars, fixVars, svcVars>>

\* the response has gone out
SendReturn ==
    /\ send # NoRequest
    /\ send' = NoRequest
    /\ UNCHANGED <<telegram, dirVars, loopVars, fixVars, svcVars>>

InitSend ==
    /\ config_file \in SendConfigs
    /\ telegram \in {"none", "disconnected", "connected"}
    /\ groq_api_key \in BOOLEAN
    /\ gemini_api_key \in BOOLEAN
    /\ active_provider = InitProvider(groq_api_key, gemini_api_key)
    /\ fix = NoRequest
    /\ send = NoRequest
    /\ DirIdle /\ LoopIdle /\ ServiceIdle

NextSend ==
    \/ \E request \in Requests, outcome \in SendOutcomes \cup {NoCall},
          delivery \in Deliveries :
           send_message(request, outcome, delivery)
    \/ \E request \in Requests, outcome \in SendOutcomes \cup {NoCall} :
           preview_message(request, outcome)
    \/ SendReturn

SpecSend == InitSend /\ [][NextSend]_vars

\* send_message reached resolve_recipient, which returned None
RecipientNotFound == send.op = "send" /\ send.recipient_info = NoneRec

\* C4 as stated: in the send pipeline, whenever resolution of the hint
\* returns null, the delivery service's send is not invoked and the caller
\* receives a failure result: success = false with an error naming the hint.
C4_NotFoundIsFailureResult ==
    RecipientNotFound =>
        /\ send.sent = <<>>
        /\ send.response.status = "200"
        /\ send.response.success = FALSE
        /\ send.response.error =
               PyStr(<<"C", "o", "u", "l", "d", " ", "n", "o", "t", " ", "f", "i", "n", "d", " ", "r", "e", "c", "i", "p", "i", "e", "n", "t", ":", " ">> \o FormatPy(send.recipient_hint))

\* the endpoint removed addressing language from an unmodified request text
\* that starts with a prefix naming the resolved recipient
NamePrefixCut ==
    /\ send.op \in {"send", "preview"}
    /\ send.recipient_info \notin {NotReached, NoneRec}
    /\ ~send.request.fix_grammar
    /\ AfterNamePrefix(send.request.raw_text, send.recipient_info.name) # 0

\* the body the endpoint arrived at
AssembledBody ==
    IF send.op = "send" THEN send.sent[1].message
    ELSE send.response.corrected

\* C11 as stated: the three start-anchored patterns are applied
\* independently, not chained: a text made of an addressing prefix, a
\* greeting and a body loses only the addressing prefix, the greeting that
\* became the start of the string by the first removal stays.
C11_PatternsNotChained ==
    NamePrefixCut =>
        AssembledBody =
            strip(CutNamePrefix(send.request.raw_text, send.recipient_info.name))

(***************************************************************************)
(* The directory over a document found on disk (specification SpecStored)  *)
(***************************************************************************)
BobRecord ==
    [name |-> <<"B", "o", "b">>, telegram |-> <<"@", "h">>, role |-> DefaultRole,
     notes |-> <<>>]

\* config.json as the service may find it at its first request: absent,
\* written by create_contact, or edited so that the alias "boss" names a
\* contact id "al_b" that is not in "contacts"
StoredDocuments ==
    {NoFile,
     save_config(CreateDoc(DefaultConfig, RahulContact)),
     [contacts |-> << <<<<"b", "o", "b">>, BobRecord>> >>,
      aliases |-> << <<<<"b", "o", "b">>, <<"b", "o", "b">>>>, <<<<"b", "o", "s", "s">>, <<"a", "l", "_", "b">>>> >>]}

InitStored ==
    /\ config_file \in StoredDocuments
    /\ DirIdle /\ LoopIdle /\ FixIdle /\ SendIdle /\ ServiceIdle

NextStored ==
    \/ \E contact \in ContactCreates : create_contact(contact)
    \/ \E contact_id \in DeleteIds : delete_contact(contact_id)
    \/ list_contacts

SpecStored == InitStored /\ [][NextStored]_vars

\* C12 as stated: an alias of the persisted document whose contact_id has
\* no matching contact is dropped on load: the document a request works on
\* holds no alias that refers to a missing contact, and no save writes such
\* an alias back.
C12_LoadDropsDanglingAlias ==
    last.op # "none" =>
        /\ NoDanglingAlias(last.pre)
        /\ NoDanglingAlias(Directory)

\* C13 as stated: after any sequence of create and delete requests every
\* contact that exists is reachable through its own identity: resolving
\* its name and resolving its id both return its own record, whatever
\* aliases and names other contacts were created with.
C13_OwnIdentityResolves ==
    \A contact_id \in ContactIds(Directory) :
        /\ ResolveKey(DictGet(Directory.contacts, contact_id).name, Directory)
               = contact_id
        /\ ResolveKey(contact_id, Directory) = contact_id

(***************************************************************************)
(* TelegramService (specification SpecTelegram)                            *)
(***************************************************************************)
\* the property is_connected
is_connected(svc) == svc._is_connected /\ svc.client

\* what the endpoints of main.py see of the service object
TelegramSeen(svc) == IF is_connected(svc) THEN "connected" ELSE "disconnected"

\* A method awaits calls on the Telethon client in program order; plan
\* lists them with the outcome each would have.  The calls made are those
\* up to the first one that raises an exception the method does not name.
Raised(plan) == \E i \in 1..Len(plan) : plan[i][2] = "raises"
Made(plan) ==
    IF Raised(plan)
    THEN SubSeq(plan, 1, Least({i \in 1..Len(plan) : plan[i][2] = "raises"}))
    ELSE plan

Returns(value) == [kind |-> "returns", value |-> value]
Raising(value) == [kind |-> "raises", value |-> value]

\* outcomes of the awaited client calls
Plain == {"ok", "raises"}
Authorized == {"True", "False", "raises"}
SignIns == {"ok", "SessionPasswordNeededError", "PhoneCodeInvalidError", "raises"}

Phones == {<<"+", "1">>}
PhoneCodeHash == <<"h", "1">>
Passwords == {None, <<>>, <<"p", "w">>}

\* connect(): the client is created if there is none, then connected; the
\* flag is set if the client reports the user authorized
connect(c_connect, c_authorized) ==
    LET plan == << <<"connect", c_connect>>,
                   <<"is_user_authorized", c_authorized>> >>
        authorized == ~Raised(plan) /\ c_authorized = "True"
    IN  /\ service' = [service EXCEPT
                         !.client = TRUE,
                         !._is_connected = IF authorized THEN TRUE ELSE @]
        /\ call' = [op |-> "connect", pre |-> service,
                    client_calls |-> Made(plan),
                    result |-> IF Raised(plan) THEN Raising("Exception")
                               ELSE IF authorized THEN Returns("True")
                               ELSE Returns("False")]
        /\ telegram' = TelegramSeen(service')
        /\ UNCHANGED <<dirVars, loopVars, fixVars, send>>

\* disconnect(): with a client, the client is disconnected and the flag
\* cleared; without one nothing happens
disconnect ==
    /\ service' = IF service.client
                  THEN [service EXCEPT !._is_connected = FALSE]
                  ELSE service
    /\ call' = [op |-> "disconnect", pre |-> service,
                client_calls |-> IF service.client
                                 THEN << <<"disconnect", "ok">> >> ELSE <<>>,
                result |-> Returns("None")]
    /\ telegram' = TelegramSeen(service')
    /\ UNCHANGED <<dirVars, loopVars, fixVars, send>>

\* start_auth(phone): every exception is caught and reported in the result
start_auth(phone, c_connect, c_authorized, c_get_me, c_send_code) ==
    LET plan == << <<"connect", c_connect>>,
                   <<"is_user_authorized", c_authorized>> >>
                \o (IF c_authorized = "True"
                    THEN << <<"get_me", c_get_me>> >>
                    ELSE IF c_authorized = "False"
                    THEN << <<"send_code_request", c_send_code>> >>
                    ELSE <<>>)
        already == ~Raised(plan) /\ c_authorized = "True"
        \* line 80 is reached
        asked == c_connect = "ok" /\ c_authorized = "False"
    IN  /\ service' = [service EXCEPT
                         !.client = TRUE,
                         !._is_connected = IF already THEN TRUE ELSE @,
                         !.phone = IF asked THEN phone ELSE @,
                         !.phone_code_hash =
                             IF asked /\ ~Raised(plan) THEN PhoneCodeHash
                             ELSE @]
        /\ call' = [op |-> "start_auth", pre |-> service,
                    client_calls |-> Made(plan),
                    result |-> IF Raised(plan) THEN Returns("error")
                               ELSE IF already
                               THEN Returns("already_authorized")
                               ELSE Returns("code_sent")]
        /\ telegram' = TelegramSeen(service')
        /\ UNCHANGED <<dirVars, loopVars, fixVars, send>>

\* "not x" for an Optional[str]
NotSet(x) == x = None \/ x = <<>>

\* complete_auth(code, password): every exception is caught and reported
\* in the result
complete_auth(password, c_sign_in, c_sign_in_password, c_get_me) ==
    LET started == /\ service.client
                   /\ ~NotSet(service.phone)
                   /\ ~NotSet(service.phone_code_hash)
        plan == IF ~started THEN <<>>
                ELSE << <<"sign_in", c_sign_in>> >>
                     \o (IF c_sign_in = "ok"
                         THEN << <<"get_me", c_get_me>> >>
                         ELSE IF /\ c_sign_in = "SessionPasswordNeededError"
                                 /\ ~NotSet(password)
                         THEN << <<"sign_in_password", c_sign_in_password>>,
                                 <<"get_me", c_get_me>> >>
                         ELSE <<>>)
        \* line 128 is reached
        signed_in == /\ plan # <<>>
                     /\ ~Raised(plan)
                     /\ plan[Len(plan)][1] = "get_me"
    IN  /\ service' = [service EXCEPT
                         !._is_connected = IF signed_in THEN TRUE ELSE @]
        /\ call' = [op |-> "complete_auth", pre |-> service,
                    client_calls |-> Made(plan),
                    result |->
                        IF ~started THEN Returns("Auth not started")
                        ELSE IF Raised(plan) THEN Returns("error")
                        ELSE IF signed_in THEN Returns("session_string")
                        ELSE IF c_sign_in = "PhoneCodeInvalidError"
                        THEN Returns("Invalid verification code")
                        ELSE Returns("needs_2fa")]
        /\ telegram' = TelegramSeen(service')
        /\ UNCHANGED <<dirVars, loopVars, fixVars, send>>

\* the guard of TelegramService.send_message, with the flag test left out
NotConnectedNoClient(svc) == ~svc.client

\* the guard of TelegramService.send_message
NotConnected(svc) == ~svc.client \/ ~svc._is_connected

\* TelegramService.send_message(recipient, message)
service_send_message(recipient, message, c_get_entity, c_send_message) ==
    LET plan == IF NotConnected(service) THEN <<>>
                ELSE << <<"get_entity", c_get_entity>>,
                        <<"send_message", c_send_message>> >>
    IN  /\ call' = [op |-> "send_message", pre |-> service,
                    client_calls |-> Made(plan),
                    result |->
                        IF NotConnected(service)
                        THEN Raising("Not connected to Telegram")
                        ELSE IF Raised(plan) THEN Raising("Exception")
                        ELSE Returns("result.id")]
        /\ UNCHANGED <<service, telegram, dirVars, loopVars, fixVars, send>>

\* the requests drawn for POST /message/send
ServiceRequests ==
    {r \in Requests : r.raw_text = <<"s", "e", "e", " ", "y", "o", "u">> /\ ~r.fix_grammar
                      /\ r.recipient \in {<<"R", "a", "h", "u", "l">>, <<"n", "o", "b", "o", "d", "y">>}}
ServiceMessages == {<<"h", "i">>}

InitTelegram ==
    /\ config_file = save_config(CreateDoc(DefaultConfig, RahulContact))
    /\ service = NewService
    /\ call = NoRequest
    /\ telegram = TelegramSeen(service)
    /\ send = NoRequest
    /\ DirIdle /\ LoopIdle /\ FixIdle

NextTelegram ==
    \/ \E c \in Plain, a \in Authorized : connect(c, a)
    \/ disconnect
    \/ \E phone \in Phones, c \in Plain, a \in Authorized, g \in Plain,
          sc \in Plain : start_auth(phone, c, a, g, sc)
    \/ \E password \in Passwords, si \in SignIns, sp \in Plain, g \in Plain :
           complete_auth(password, si, sp, g)
    \/ \E recipient \in Handles, message \in ServiceMessages, g \in Plain,
          sm \in Plain : service_send_message(recipient, message, g, sm)
    \/ \E request \in ServiceRequests, delivery \in Deliveries :
           send_message(request, NoCall, delivery)
    \/ SendReturn

SpecTelegram == InitTelegram /\ [][NextTelegram]_vars

\* the client calls of the last call on the service
ClientCalls == Range(call.client_calls)
ClientMethods == {c[1] : c \in ClientCalls}

\* the last call took the service into the connected state
Entered == is_connected(service) /\ ~is_connected(call.pre)

\* the service after a call
ServiceCallOK ==
    /\ telegram = TelegramSeen(service)
    /\ service._is_connected => service.client
    /\ call.op # "none" =>
        /\ "send_message" \in ClientMethods => is_connected(call.pre)
        /\ (call.op = "send_message" /\ ~is_connected(call.pre)) =>
               /\ call.result = Raising("Not connected to Telegram")
               /\ call.client_calls = <<>>
        /\ Entered =>
               \/ /\ call.op \in {"connect", "start_auth"}
                  /\ <<"is_user_authorized", "True">> \in ClientCalls
               \/ /\ call.op = "complete_auth"
                  /\ \/ <<"sign_in", "ok">> \in ClientCalls
                     \/ <<"sign_in_password", "ok">> \in ClientCalls
        /\ call.op = "disconnect" => ~is_connected(service)

\* POST /message/send answered in this step
EndpointSendOK ==
    (send.op = "none" /\ send'.op = "send") =>
        /\ telegram # "connected" =>
               send'.response.status = "503" /\ send'.sent = <<>>
        /\ send'.sent # <<>> => telegram = "connected"

ExplicitRecipient ==
    /\ send.op \in {"send", "preview"}
    /\ send.recipient_hint # NotReached
    /\ ~Falsy(PyOpt(send.request.recipient))

\* the request went through: a message sent, or a preview ready to send
WentThrough ==
    /\ send.response.status = "200"
    /\ IF send.op = "send" THEN send.response.success
       ELSE send.response.ready_to_send

=============================================================================
